---- MODULE Spec2Model ----
(***************************************************************************)
(* tap-s3-csv, tap_s3_csv/sync.py: the table sync.  sync_stream reads the  *)
(* table's modified_since bookmark, lists the files modified after it,     *)
(* sorts them by last_modified and streams them one by one through         *)
(* sync_table_file; after each file it writes the bookmark and the state.  *)
(* Both record messages and state messages go to the same output stream.   *)
(***************************************************************************)
EXTENDS Integers, Sequences, FiniteSets

\* ------------------------------------------------------------- bounds
\* Number of object keys the bucket may hold.
MaxFiles == 2
\* last_modified values are 1..MaxTime, in ticks of 1/TicksPerSecond s.
MaxTime == 2
\* A file holds 0..MaxRows data rows.
MaxRows == 2
\* Sub-second resolution of a timestamp.
TicksPerSecond == 2

Keys == 1..MaxFiles
Times == 1..MaxTime
Sizes == 0..MaxRows

\* ------------------------------------------------------ names of s3.py
SDC_SOURCE_BUCKET_COLUMN == "_sdc_source_bucket"
SDC_SOURCE_FILE_COLUMN == "_sdc_source_file"
SDC_SOURCE_LINENO_COLUMN == "_sdc_source_lineno"

ReservedColumns ==
  {SDC_SOURCE_BUCKET_COLUMN, SDC_SOURCE_FILE_COLUMN, SDC_SOURCE_LINENO_COLUMN}

\* ------------------------------------------------------------- inputs
\* table_spec["table_name"], and another table whose bookmark the state holds.
table_name == "orders"
OtherTable == "users"

\* A FileDescriptor of the listing: key, last_modified (ticks) and the number
\* of data rows its body decodes to.
FileDescriptors == [key : Keys, last_modified : Times, size : Sizes]

\* The bucket contents: at most one object per key.
Storages ==
  {{f \in FileDescriptors : f.key \in DOMAIN a /\ a[f.key] = f} :
     a \in UNION {[K -> FileDescriptors] : K \in SUBSET Keys}}

\* ---------------------------------------------------------- timestamps
\* datetime.isoformat() of a timezone-aware UTC datetime: the whole seconds,
\* the fraction, and the offset.
isoformat(t) ==
  [sec |-> t \div TicksPerSecond, frac |-> t % TicksPerSecond, tz |-> "+00:00"]

\* utils.strptime_with_tz: the datetime an ISO-8601 string denotes.
strptime_with_tz(s) == s.sec * TicksPerSecond + s.frac

\* round(last_modified.timestamp()): to the nearest second.
timestamp_rounded(t) == (2 * t + TicksPerSecond) \div (2 * TicksPerSecond)

\* int(last_modified.timestamp()): epoch seconds, the fraction cut.
timestamp_int(t) == t \div TicksPerSecond

\* ------------------------------------------------------------- config
\* The modules importlib can find, and one whose import raises another error.
DefaultModule == "singer_encodings.csv"
InstalledModules == {"custom_csv"}
BrokenModules == {"broken_csv"}

\* The configurations: the full one, and the ones that lack a setting or name
\* an encoding module.
BaseConfig == [bucket |-> "bkt", start_date |-> isoformat(0)]
Configs ==
  { BaseConfig,
    [bucket |-> "bkt"],
    [start_date |-> isoformat(0)],
    [bucket |-> "bkt", start_date |-> isoformat(0), encoding_module |-> "custom_csv"],
    [bucket |-> "bkt", start_date |-> isoformat(0), encoding_module |-> "missing_csv"],
    [bucket |-> "bkt", start_date |-> isoformat(0), encoding_module |-> "broken_csv"] }

\* The configurations that differ in start_date: early, late, absent.
DateConfigs ==
  { BaseConfig,
    [bucket |-> "bkt", start_date |-> isoformat(MaxTime)],
    [bucket |-> "bkt"] }

\* ---------------------------------------------------------- bookmarks
\* The state maps a table name to its bookmarks; a table with no bookmark is
\* not in its domain.
has_bookmark(st, table) == table \in DOMAIN st

\* A bookmark written into a fresh state, which drops the other tables.
write_bookmark_fresh(st, table, value) ==
  [t \in {table} |-> [modified_since |-> value]]

\* singer.write_bookmark(state, table, "modified_since", value)
write_bookmark(st, table, value) ==
  [t \in DOMAIN st \cup {table} |->
     IF t = table THEN [modified_since |-> value] ELSE st[t]]

\* ------------------------------------------------------- file selector
\* s3.get_input_files_for_table: the objects modified strictly after `since`.
get_input_files_for_table(store, since) ==
  {f \in store : f.last_modified > since}

\* The orders in which a listing can return the files of set S.
Orderings(S) ==
  {p \in [1..Cardinality(S) -> S] : \A x \in S : \E i \in DOMAIN p : p[i] = x}

\* ---------------------------------------------------------------- sort
\* sorted(s3_files, key=lambda item: item["last_modified"]): x goes before the
\* first element whose key is greater, so equal keys keep their order.
\* An insertion that puts x before the elements of equal key: an unstable sort.
RECURSIVE insert_before_equal(_, _)
insert_before_equal(x, seq) ==
  IF seq = <<>> THEN <<x>>
  ELSE IF x.last_modified <= Head(seq).last_modified THEN <<x>> \o seq
       ELSE <<Head(seq)>> \o insert_before_equal(x, Tail(seq))

RECURSIVE insert_sorted(_, _)
insert_sorted(x, seq) ==
  IF seq = <<>> THEN <<x>>
  ELSE IF x.last_modified < Head(seq).last_modified THEN <<x>> \o seq
       ELSE <<Head(seq)>> \o insert_sorted(x, Tail(seq))

RECURSIVE sorted_from(_, _)
sorted_from(acc, rest) ==
  IF rest = <<>> THEN acc
  ELSE sorted_from(insert_sorted(Head(rest), acc), Tail(rest))

\* The loop walking the listing as returned, with no sort.
sorted_not_at_all(seq) == seq

sorted(seq) == sorted_from(<<>>, seq)

\* ---------------------------------------------------------------- rows
\* The row the decoder yields for data row i (from 0) of the object `key`:
\* rows alternate between one that carries a field outside the schema and one
\* whose field names collide with the reserved columns.
get_row(key, i) ==
  IF (key + i) % 2 = 0
  THEN [f \in {"id"} \cup ReservedColumns |->
          IF f = "id" THEN <<key, i>>
          ELSE IF f = SDC_SOURCE_BUCKET_COLUMN THEN "row_bucket"
          ELSE 0]
  ELSE [f \in {"id", "note"} |-> IF f = "id" THEN <<key, i>> ELSE "n"]

\* {**custom_columns, **row}: the decoded row wins.
merge_row_wins(decoded, custom_columns) ==
  [f \in DOMAIN decoded \cup DOMAIN custom_columns |->
     IF f \in DOMAIN decoded THEN decoded[f] ELSE custom_columns[f]]

\* {**row, **custom_columns}: the right operand wins.
merge(decoded, custom_columns) ==
  [f \in DOMAIN decoded \cup DOMAIN custom_columns |->
     IF f \in DOMAIN custom_columns THEN custom_columns[f] ELSE decoded[f]]

\* The properties of stream["schema"]: the data field and the reserved columns.
SchemaProperties == {"id"} \cup ReservedColumns

\* transformer.transform(rec, schema, metadata): fields the schema does not
\* declare are removed.
transform(rec) == [f \in DOMAIN rec \cap SchemaProperties |-> rec[f]]

\* ------------------------------------------------------------ messages
\* singer.RecordMessage(stream=..., record=...).asdict()
RecordMessage_asdict(stream, record) ==
  [type |-> "RECORD", stream |-> stream, record |-> record]

\* An asdict that stores the sequence in the record mapping.
asdict_into_record(message, last_modified) ==
  [message EXCEPT !.record =
     [k \in DOMAIN message.record \cup {"sequence"} |->
        IF k = "sequence" THEN timestamp_int(last_modified)
        ELSE message.record[k]]]

\* RecordMessageWithSequence(message, last_modified).asdict()
asdict(message, last_modified) ==
  [k \in DOMAIN message \cup {"sequence"} |->
     IF k = "sequence" THEN timestamp_int(last_modified) ELSE message[k]]

\* singer.write_state(state) writes a STATE message.
StateMessage(st) == [type |-> "STATE", value |-> st]

\* --------------------------------------------------------------- state
VARIABLES
  config,            \* the configuration mapping
  storage,           \* the objects of the bucket
  persisted,         \* the state last written, which the next run is given
  state,             \* sync_stream's state argument
  pc,                \* idle, listing, loop, rows, done, failed
  fault,             \* the exception that left sync_stream, or "none"
  modified_since,    \* sync_stream's modified_since
  s3_files,          \* the listing, in the order the selector returned it;
                     \* not read after the sort, <<>> once the loop has begun
  files,             \* sorted(s3_files), the sequence the loop walks
  idx,               \* position of the loop in files
  records_streamed,  \* sync_stream's counter
  records_synced,    \* sync_table_file's counter
  row,               \* sync_table_file's row, <<>> outside the row loop
  rec,               \* sync_table_file's rec, <<>> outside the row loop
  encoding_module,   \* sync_table_file's encoding_module
  warnings,          \* warnings logged by this run
  imports,           \* calls of importlib.import_module made by this run
  state_read,        \* the state this run was given, as it was when read
  out,               \* the messages this run wrote, oldest first
  crashed            \* the key of the file whose streaming faulted in the
                     \* last run that streamed one and did not complete, or 0

vars ==
  <<config, storage, persisted, state, pc, fault, modified_since, s3_files,
    files, idx, records_streamed, records_synced, row, rec, encoding_module,
    warnings, imports, state_read, out, crashed>>

NoCrash == 0

\* The states handed to the first run: a bookmark for another table, and for
\* the table either none or the one an earlier sync left.
InitialState == [t \in {OtherTable} |-> [modified_since |-> isoformat(1)]]
InitialStates ==
  {InitialState, write_bookmark(InitialState, table_name, isoformat(1))}

\* Before the first call of sync_stream: nothing read, nothing written.
InitRun ==
  /\ state = persisted
  /\ pc = "idle"
  /\ fault = "none"
  /\ modified_since = 0
  /\ s3_files = <<>>
  /\ files = <<>>
  /\ idx = 1
  /\ records_streamed = 0
  /\ records_synced = 0
  /\ row = <<>>
  /\ rec = <<>>
  /\ encoding_module = DefaultModule
  /\ warnings = 0
  /\ imports = 0
  /\ state_read = persisted
  /\ out = <<>>
  /\ crashed = NoCrash

Init ==
  /\ config \in Configs
  /\ storage \in Storages
  /\ persisted = InitialState
  /\ InitRun

\* The first run may also find the bookmark of an earlier sync, and a
\* start_date that is early, late or absent.
InitAnyBookmark ==
  /\ config \in DateConfigs
  /\ storage \in Storages
  /\ persisted \in InitialStates
  /\ InitRun

\* The file the loop is at.
s3_file == files[idx]

\* An exception leaves sync_stream while s3_file is being streamed.
FaultInFile(kind) ==
  /\ pc' = "failed"
  /\ fault' = kind
  /\ crashed' = s3_file.key

\* A lookup that reads start_date first and the bookmark only without it.
start_date_or_bookmark(st, cfg) ==
  IF "start_date" \in DOMAIN cfg THEN cfg.start_date
  ELSE st[table_name].modified_since

\* sync_stream, line 19: get_bookmark(state, table_name, "modified_since") or
\* config["start_date"]; config is read only when there is no bookmark.
bookmark_or_start_date(st, cfg) ==
  IF has_bookmark(st, table_name) THEN st[table_name].modified_since
  ELSE cfg.start_date

\* sync_stream, lines 17-20: the watermark is the bookmark, or start_date.
StartSync ==
  /\ pc = "idle"
  /\ IF has_bookmark(state, table_name) \/ "start_date" \in DOMAIN config
     THEN /\ modified_since' =
               strptime_with_tz(bookmark_or_start_date(state, config))
          /\ pc' = "listing"
          /\ fault' = fault
     ELSE /\ pc' = "failed"
          /\ fault' = "KeyError"
          /\ modified_since' = modified_since
  /\ UNCHANGED <<config, state_read, imports, storage, persisted, state, s3_files, files, idx,
                 records_streamed, records_synced, row, rec, encoding_module,
                 warnings, out, crashed>>

\* sync_stream, lines 25-33: the listing, then the sort.
ListFiles ==
  /\ pc = "listing"
  /\ \E p \in Orderings(get_input_files_for_table(storage, modified_since)) :
       /\ s3_files' = p
       /\ files' = sorted(p)
  /\ idx' = 1
  /\ records_streamed' = 0
  /\ pc' = "loop"
  /\ UNCHANGED <<config, state_read, imports, storage, persisted, state, fault, modified_since,
                 records_synced, row, rec, encoding_module, warnings, out,
                 crashed>>

\* A failed listing after which the state is written on the way out.
ListFails_writing_state ==
  /\ pc = "listing"
  /\ pc' = "failed"
  /\ fault' = "ListError"
  /\ out' = Append(out, StateMessage(state))
  /\ UNCHANGED <<config, state_read, imports, storage, persisted, state,
                 modified_since, s3_files, files, idx, records_streamed,
                 records_synced, row, rec, encoding_module, warnings, crashed>>

\* The listing raises: the exception leaves sync_stream.
ListFails ==
  /\ pc = "listing"
  /\ pc' = "failed"
  /\ fault' = "ListError"
  /\ UNCHANGED <<config, state_read, imports, storage, persisted, state, modified_since, s3_files,
                 files, idx, records_streamed, records_synced, row, rec,
                 encoding_module, warnings, out, crashed>>

\* A module resolved by the first file of a run and kept for the others.
imports_cached == IF imports = 0 THEN 1 ELSE imports

\* sync_table_file, line 67: every call of sync_table_file imports the module
\* config names.
imports_after_open == imports + 1

\* sync_table_file, lines 49-79: the bucket, the file handle, the decoder.
OpenFile ==
  /\ pc = "loop"
  /\ idx <= Len(files)
  /\ "bucket" \in DOMAIN config
  /\ IF "encoding_module" \notin DOMAIN config
     THEN /\ encoding_module' = DefaultModule
          /\ warnings' = warnings
          /\ imports' = imports
          /\ pc' = "rows"
          /\ UNCHANGED <<fault, crashed>>
     ELSE IF config.encoding_module \in InstalledModules
     THEN /\ encoding_module' = config.encoding_module
          /\ warnings' = warnings
          /\ imports' = imports_after_open
          /\ pc' = "rows"
          /\ UNCHANGED <<fault, crashed>>
     ELSE IF config.encoding_module \in BrokenModules
     THEN /\ FaultInFile("ImportError")
          /\ imports' = imports_after_open
          /\ UNCHANGED <<encoding_module, warnings>>
     ELSE /\ encoding_module' = DefaultModule
          /\ warnings' = warnings + 1
          /\ imports' = imports_after_open
          /\ pc' = "rows"
          /\ UNCHANGED <<fault, crashed>>
  /\ records_synced' = 0
  /\ row' = <<>>
  /\ rec' = <<>>
  /\ s3_files' = <<>>
  /\ UNCHANGED <<config, state_read, storage, persisted, state, modified_since,
                 files, idx, records_streamed, out>>

\* sync_table_file, lines 51-54: config has no bucket, or the object cannot be
\* opened.
OpenFails ==
  /\ pc = "loop"
  /\ idx <= Len(files)
  /\ IF "bucket" \notin DOMAIN config
     THEN FaultInFile("KeyError")
     ELSE FaultInFile("OpenError")
  /\ s3_files' = <<>>
  /\ UNCHANGED <<config, state_read, imports, storage, persisted, state, modified_since, files, idx,
                 records_streamed, records_synced, row, rec, encoding_module,
                 warnings, out>>

\* Line numbers that count the records of the earlier files too.
custom_columns_counting_all(bucket, s3_path, n) ==
  [f \in ReservedColumns |->
     IF f = SDC_SOURCE_BUCKET_COLUMN THEN bucket
     ELSE IF f = SDC_SOURCE_FILE_COLUMN THEN s3_path
     ELSE records_streamed + n + 2]

\* sync_table_file, lines 82-87: custom_columns for row number n (from 0).
custom_columns_of(bucket, s3_path, n) ==
  [f \in ReservedColumns |->
     IF f = SDC_SOURCE_BUCKET_COLUMN THEN bucket
     ELSE IF f = SDC_SOURCE_FILE_COLUMN THEN s3_path
     ELSE n + 2]

\* sync_table_file, lines 81-88: the row the iterator yields, and the record
\* built from it.
next_row == get_row(s3_file.key, records_synced)

next_rec ==
  merge(next_row, custom_columns_of(config.bucket, s3_file.key, records_synced))

\* sync_table_file, lines 90-97: the message built from rec.
to_write_with_sequence(r) ==
  asdict(RecordMessage_asdict(table_name, transform(r)), s3_file.last_modified)

\* A write_message that also checkpoints the state after every record.
write_message_checkpointing(o, message) ==
  Append(Append(o, message), StateMessage(state))

\* singer.write_message(message), line 99.
write_message(o, message) == Append(o, message)

\* sync_table_file, lines 81-100: one turn of the row loop.
NextRow ==
  /\ pc = "rows"
  /\ records_synced < s3_file.size
  /\ row' = next_row
  /\ rec' = next_rec
  /\ out' = write_message(out, to_write_with_sequence(rec'))
  /\ records_synced' = records_synced + 1
  /\ UNCHANGED <<config, state_read, imports, storage, persisted, state, pc, fault, modified_since,
                 s3_files, files, idx, records_streamed, encoding_module,
                 warnings, crashed>>

\* The iterator raises (a decode or a storage read error), or the transformer
\* rejects the record it was handed.
RowFails ==
  /\ pc = "rows"
  /\ \/ /\ FaultInFile("DecodeError")
        /\ UNCHANGED <<row, rec>>
     \/ /\ records_synced < s3_file.size
        /\ row' = next_row
        /\ rec' = next_rec
        /\ FaultInFile("TransformError")
  /\ UNCHANGED <<config, state_read, imports, storage, persisted, state, modified_since, s3_files,
                 files, idx, records_streamed, records_synced, encoding_module,
                 warnings, out>>

\* A bookmark cut to whole seconds.
new_bookmark_whole_seconds(last_modified) ==
  isoformat(timestamp_int(last_modified) * TicksPerSecond)

\* sync_stream, line 39: the bookmark value of the file just streamed.
new_bookmark(last_modified) == isoformat(last_modified)

\* A count that is assigned the last file's count.
records_streamed_assigned(total, count) == count

\* sync_stream, line 34: records_streamed += sync_table_file(...).
records_streamed_plus(total, count) == total + count

\* A state written only for a file that had records.
write_state_if_records(o, st) ==
  IF records_synced > 0 THEN Append(o, StateMessage(st)) ELSE o

\* singer.write_state(state), line 41.
write_state(o, st) == Append(o, StateMessage(st))

\* sync_table_file returns at line 102; sync_stream, lines 34-41, adds its
\* count, writes the bookmark and writes the state.
CommitFile ==
  /\ pc = "rows"
  /\ records_synced = s3_file.size
  /\ records_streamed' = records_streamed_plus(records_streamed, records_synced)
  /\ state' = write_bookmark(state, table_name,
                             new_bookmark(s3_file.last_modified))
  /\ out' = write_state(out, state')
  /\ persisted' = state'
  /\ idx' = idx + 1
  /\ row' = <<>>
  /\ rec' = <<>>
  /\ pc' = "loop"
  /\ UNCHANGED <<config, state_read, imports, storage, fault, modified_since, s3_files, files,
                 records_synced, encoding_module, warnings, crashed>>

\* A return that writes the state once more when the loop is over.
Return_writing_state ==
  /\ pc = "loop"
  /\ idx > Len(files)
  /\ pc' = "done"
  /\ s3_files' = <<>>
  /\ out' = Append(out, StateMessage(state))
  /\ UNCHANGED <<config, state_read, imports, storage, persisted, state,
                 fault, modified_since, files, idx, records_streamed,
                 records_synced, row, rec, encoding_module, warnings, crashed>>

\* sync_stream, lines 43-45: the loop is over, the count is returned.
Return ==
  /\ pc = "loop"
  /\ idx > Len(files)
  /\ pc' = "done"
  /\ s3_files' = <<>>
  /\ UNCHANGED <<config, state_read, imports, storage, persisted, state, fault, modified_since,
                 files, idx, records_streamed, records_synced, row, rec,
                 encoding_module, warnings, out, crashed>>

\* The tap is run again over the same bucket, with the state last written.
Restart ==
  /\ pc \in {"done", "failed"}
  /\ pc' = "idle"
  /\ state' = persisted
  /\ fault' = "none"
  /\ modified_since' = 0
  /\ s3_files' = <<>>
  /\ files' = <<>>
  /\ idx' = 1
  /\ records_streamed' = 0
  /\ records_synced' = 0
  /\ row' = <<>>
  /\ rec' = <<>>
  /\ encoding_module' = DefaultModule
  /\ warnings' = 0
  /\ out' = <<>>
  /\ crashed' = IF pc = "done" THEN NoCrash ELSE crashed
  /\ imports' = 0
  /\ state_read' = persisted
  /\ UNCHANGED <<config, storage, persisted>>

Next ==
  \/ StartSync
  \/ ListFiles
  \/ ListFails
  \/ OpenFile
  \/ OpenFails
  \/ NextRow
  \/ RowFails
  \/ CommitFile
  \/ Return
  \/ Restart

Spec == Init /\ [][Next]_vars

SpecAnyBookmark == InitAnyBookmark /\ [][Next]_vars

\* ------------------------------------------------- reading the output
IsRecord(m) == m.type = "RECORD"
IsState(m) == m.type = "STATE"

RecordPositions == {p \in DOMAIN out : IsRecord(out[p])}
StatePositions == {p \in DOMAIN out : IsState(out[p])}

\* The key of the file a record message came from.
SourceFile(m) == m.record[SDC_SOURCE_FILE_COLUMN]

\* The keys of files[a..b].
KeysOf(a, b) == {files[j].key : j \in a..b}

\* The object stored under a key.
FileOf(key) == CHOOSE f \in storage : f.key = key

\* The positions before p of the records that came from the file `key`.
RecordsBefore(key, p) ==
  {i \in RecordPositions : i < p /\ SourceFile(out[i]) = key}

\* The table's watermark in a state, as a time.
Watermark(st) == strptime_with_tz(st[table_name].modified_since)

\* The keys of the files whose records are in the output, all of them.
FullyStreamed ==
  {f.key : f \in {g \in storage :
     /\ Cardinality(RecordsBefore(g.key, Len(out) + 1)) = g.size
     /\ \E j \in DOMAIN files : files[j] = g /\ j < idx}}

\* An exception left sync_stream while a file was being streamed.
FaultedInFile ==
  pc = "failed" /\ fault \in {"OpenError", "DecodeError", "TransformError"}

\* ------------------------------------------------------------------ C1
\* C1: the watermark is written only after every row of the file it is set
\* from has been written. The k-th state message of a run carries the
\* last_modified of the k-th sorted file and comes after all size-many records
\* of that file; no state message lies between two records of one file; and
\* the persisted state is the one last written.
C1_WatermarkOnlyAfterWholeFile ==
  /\ \A p \in StatePositions :
       LET k == Cardinality({q \in StatePositions : q <= p})
       IN /\ k <= Len(files)
          /\ has_bookmark(out[p].value, table_name)
          /\ out[p].value[table_name].modified_since
               = isoformat(files[k].last_modified)
          /\ Cardinality(RecordsBefore(files[k].key, p)) = files[k].size
  /\ \A i, j \in RecordPositions : \A p \in StatePositions :
       (i < p /\ p < j) => SourceFile(out[i]) # SourceFile(out[j])
  /\ StatePositions # {} =>
       persisted = out[CHOOSE p \in StatePositions :
                         \A q \in StatePositions : q <= p].value

\* A file of two rows was committed and a record of the next file followed.
C1_Witness ==
  \E p \in StatePositions :
    /\ p >= 3
    /\ IsRecord(out[p - 1]) /\ IsRecord(out[p - 2])
    /\ p < Len(out) /\ IsRecord(out[p + 1])

\* ------------------------------------------------------------------ C2
\* C2: a run restarted after the streaming of file F faulted, over the same
\* bucket, streams F again from its first row, streams every file sorted
\* after F, and streams no file committed before F.
C2_RestartStreamsFailedFileAndAfter ==
  (pc = "done" /\ crashed # NoCrash) =>
     /\ crashed \in FullyStreamed
     /\ \A g \in storage :
          g.last_modified > FileOf(crashed).last_modified
             => g.key \in FullyStreamed
     /\ \A g \in storage :
          g.last_modified < FileOf(crashed).last_modified
             => g.key \notin KeysOf(1, Len(files))

\* ------------------------------------------------------------------ C3
\* C3: when the streaming of a file faults, the fault leaves sync_stream, no
\* state is written for the file, no later file is streamed, and the persisted
\* watermark is the one committed for the previous file of the run (or the
\* one the run started with), which is not the failed file's last_modified.
C3_FaultKeepsPreviousWatermark ==
  FaultedInFile =>
     /\ Cardinality(StatePositions) = idx - 1
     /\ \A p \in RecordPositions : SourceFile(out[p]) \in KeysOf(1, idx)
     /\ state = persisted
     /\ IF idx > 1
        THEN /\ has_bookmark(persisted, table_name)
             /\ persisted[table_name].modified_since
                  = isoformat(files[idx - 1].last_modified)
        ELSE has_bookmark(persisted, table_name) =>
               Watermark(persisted) = modified_since
     /\ has_bookmark(persisted, table_name) =>
          Watermark(persisted) # s3_file.last_modified

\* ------------------------------------------------------------------ C4
\* C4: records leave file by file in non-decreasing last_modified order, the
\* records of two files are never interleaved, and the n-th record of a file
\* is the n-th row its iterator yielded.
C4_EmissionFollowsSortedOrder ==
  /\ \A i, j \in RecordPositions :
       i < j => FileOf(SourceFile(out[i])).last_modified
                  <= FileOf(SourceFile(out[j])).last_modified
  /\ \A i, j \in RecordPositions :
       (i < j /\ SourceFile(out[i]) = SourceFile(out[j]))
          => \A k \in i..j : IsRecord(out[k])
                               /\ SourceFile(out[k]) = SourceFile(out[i])
  /\ \A p \in RecordPositions :
       out[p].record.id
         = <<SourceFile(out[p]),
             Cardinality(RecordsBefore(SourceFile(out[p]), p))>>

\* Two records of one file were emitted, then a record of a later file.
C4_Witness ==
  /\ \E i, j, k \in RecordPositions :
       /\ i < j /\ j < k
       /\ SourceFile(out[i]) = SourceFile(out[j])
       /\ SourceFile(out[j]) # SourceFile(out[k])

\* ------------------------------------------------------------------ C5
\* The position of file f in the listing.
ListingPosition(f) == CHOOSE i \in DOMAIN s3_files : s3_files[i] = f

\* C5 as claimed: the processing order is fixed by the set of files alone,
\* whatever order the selector returned them in.
C5_OrderFixedByFileSet ==
  (pc = "loop" /\ idx = 1) =>
     \A p \in Orderings({s3_files[i] : i \in DOMAIN s3_files}) :
        sorted(p) = files

\* C5 as amended: the files are processed in non-decreasing last_modified
\* order, and files of equal last_modified in the order the selector returned
\* them.
C5_TiesKeepListingOrder ==
  (pc = "loop" /\ idx = 1) =>
  /\ Len(files) = Len(s3_files)
  /\ \A i \in DOMAIN files : \E j \in DOMAIN s3_files : s3_files[j] = files[i]
  /\ \A i, j \in DOMAIN files :
       i < j => /\ files[i].last_modified <= files[j].last_modified
                /\ files[i].last_modified = files[j].last_modified
                     => ListingPosition(files[i]) < ListingPosition(files[j])

\* A run processed two files of equal last_modified, the greater key first.
C5_Witness ==
  /\ pc = "done"
  /\ \E i, j \in DOMAIN files :
       /\ i < j
       /\ files[i].last_modified = files[j].last_modified
       /\ files[i].key > files[j].key

\* ------------------------------------------------------------------ C6
\* C6: after a run that completes and processed a file, the persisted
\* watermark is the isoformat of the last_modified of the last file processed;
\* and the persisted watermark never decreases, from run to run, and is never
\* lower than the start_date it began from.
C6_WatermarkIsLastFileAndNeverDecreases ==
  /\ []((pc = "done" /\ Len(files) >= 1) =>
          /\ has_bookmark(persisted, table_name)
          /\ persisted[table_name].modified_since
               = [sec |-> files[Len(files)].last_modified \div TicksPerSecond,
                  frac |-> files[Len(files)].last_modified % TicksPerSecond,
                  tz |-> "+00:00"])
  /\ [][/\ has_bookmark(persisted, table_name) =>
             /\ has_bookmark(persisted', table_name)
             /\ Watermark(persisted') >= Watermark(persisted)
        /\ (~has_bookmark(persisted, table_name)
              /\ has_bookmark(persisted', table_name)) =>
             Watermark(persisted') >= strptime_with_tz(config.start_date)]_vars

\* A later run, started from a bookmark, completed and processed a file.
C6_Witness ==
  /\ pc = "done"
  /\ Len(files) >= 1
  /\ modified_since > 0

\* ------------------------------------------------------------------ C7
\* C7: every record message carries as sequence the whole epoch seconds of the
\* last_modified of the file it came from, whatever the row.
C7_SequenceIsFileEpochSeconds ==
  \A p \in RecordPositions :
    out[p].sequence
      = FileOf(SourceFile(out[p])).last_modified \div TicksPerSecond

\* Two records of one file follow a record of a file of another second, which
\* was modified at a fraction of a second.
C7_Witness ==
  \E i, j, k \in RecordPositions :
    /\ i < j /\ j < k
    /\ SourceFile(out[i]) # SourceFile(out[j])
    /\ SourceFile(out[j]) = SourceFile(out[k])
    /\ out[i].sequence # out[j].sequence
    /\ FileOf(SourceFile(out[i])).last_modified % TicksPerSecond # 0

\* ------------------------------------------------------------------ C8
\* C8 as claimed: a record message is {type, stream, record}, and the sequence
\* is a field of its record mapping.
C8_SequenceInsideRecord ==
  \A p \in RecordPositions :
    /\ DOMAIN out[p] = {"type", "stream", "record"}
    /\ out[p].stream = table_name
    /\ "sequence" \in DOMAIN out[p].record

\* C8 as amended: a record message is {type, stream, record, sequence}: the
\* sequence is an entry of the message itself, beside the record mapping,
\* which holds the transformer's fields and nothing else.
C8_SequenceBesideRecord ==
  \A p \in DOMAIN out :
    /\ IsRecord(out[p]) \/ IsState(out[p])
    /\ IsRecord(out[p]) =>
         /\ DOMAIN out[p] = {"type", "stream", "record", "sequence"}
         /\ out[p].stream = table_name
         /\ out[p].sequence \in Nat
         /\ DOMAIN out[p].record \subseteq SchemaProperties

\* Two record messages were written.
C8_Witness == Cardinality(RecordPositions) >= 2

\* ------------------------------------------------------------------ C9
\* C9: the line number of the N-th record of a file is N + 1, counting from
\* the file's own first record.
C9_LineNumberIsPositionInFile ==
  \A p \in RecordPositions :
    out[p].record[SDC_SOURCE_LINENO_COLUMN]
      = Cardinality(RecordsBefore(SourceFile(out[p]), p)) + 2

\* The first record of a file has line 2 after an earlier file's records had
\* lines 2 and 3.
C9_Witness ==
  \E i, j, k \in RecordPositions :
    /\ i < j /\ j < k
    /\ out[i].record[SDC_SOURCE_LINENO_COLUMN] = 2
    /\ out[j].record[SDC_SOURCE_LINENO_COLUMN] = 3
    /\ out[k].record[SDC_SOURCE_LINENO_COLUMN] = 2

\* ----------------------------------------------------------------- C10
\* C10: the record built from a row holds the bucket, the file key and the
\* computed line number under the reserved names, also when the row has fields
\* of those names, and every other field of the row unchanged.
C10_ReservedFieldsOverwriteRow ==
  DOMAIN rec # {} =>
     /\ DOMAIN rec = DOMAIN row \cup ReservedColumns
     /\ rec[SDC_SOURCE_BUCKET_COLUMN] = config.bucket
     /\ rec[SDC_SOURCE_FILE_COLUMN] = s3_file.key
     /\ rec[SDC_SOURCE_LINENO_COLUMN]
          = IF fault = "TransformError" THEN records_synced + 2
            ELSE records_synced + 1
     /\ \A f \in DOMAIN row \ ReservedColumns : rec[f] = row[f]

\* A row with all three reserved names was merged and its message written.
C10_Witness ==
  /\ pc = "rows"
  /\ ReservedColumns \subseteq DOMAIN row
  /\ DOMAIN rec # {}
  /\ row[SDC_SOURCE_LINENO_COLUMN] # rec[SDC_SOURCE_LINENO_COLUMN]
  /\ row[SDC_SOURCE_BUCKET_COLUMN] # rec[SDC_SOURCE_BUCKET_COLUMN]
  /\ out # <<>>
  /\ IsRecord(out[Len(out)])
  /\ out[Len(out)].record[SDC_SOURCE_BUCKET_COLUMN] = config.bucket

\* ----------------------------------------------------------------- C11
\* The configuration names an encoding module that is not installed or that
\* cannot be imported.
SelectionFails ==
  /\ "encoding_module" \in DOMAIN config
  /\ config.encoding_module \notin InstalledModules

\* C11: a failure to resolve the module config names under encoding_module is
\* never fatal. Whenever the selection fails the run does not end with an
\* import fault, and the file is opened with the default decoder and a warning
\* logged.
C11_SelectionFailureNeverFatal ==
  SelectionFails =>
     /\ fault # "ImportError"
     /\ pc = "rows" => (encoding_module = DefaultModule /\ warnings >= 1)

\* ----------------------------------------------------------------- C12
\* The number of files whose streaming has completed.
FilesCompleted == idx - 1

\* C12: the state is written once per file whose streaming completes, a file
\* of no rows included, and never per record. At every moment there are as many
\* state messages as completed files; the k-th one holds the bookmark of the
\* k-th file, comes after every record of the first k files and before every
\* record of the later ones; and the state in memory is the persisted one.
C12_OneStateWritePerCompletedFile ==
  /\ Cardinality(StatePositions) = FilesCompleted
  /\ state = persisted
  /\ \A p \in StatePositions :
       LET k == Cardinality({q \in StatePositions : q <= p})
       IN /\ k <= Len(files)
          /\ has_bookmark(out[p].value, table_name)
          /\ out[p].value[table_name].modified_since
               = isoformat(files[k].last_modified)
          /\ \A i \in RecordPositions :
               i < p <=> SourceFile(out[i]) \in KeysOf(1, k)

\* A run ended after a file of no rows and a file of two rows, with two state
\* messages.
C12_Witness ==
  /\ pc = "done"
  /\ \E i, j \in DOMAIN files : files[i].size = 0 /\ files[j].size = 2
  /\ Cardinality(StatePositions) = 2
  /\ Cardinality(RecordPositions) = 2

\* ----------------------------------------------------------------- C13
\* C13: when the listing fails the table sync fails with that fault: no file
\* is opened, no record and no state are written, and the watermark is the one
\* the run was given.
C13_ListingFaultWritesNothing ==
  fault = "ListError" =>
     /\ pc = "failed"
     /\ files = <<>>
     /\ idx = 1
     /\ imports = 0
     /\ records_streamed = 0
     /\ out = <<>>
     /\ state = state_read
     /\ persisted = state_read

\* The listing failed in a run that had a bookmark and files newer than it.
C13_Witness ==
  /\ fault = "ListError"
  /\ has_bookmark(persisted, table_name)
  /\ get_input_files_for_table(storage, modified_since) # {}

\* ----------------------------------------------------------------- C14
\* C14: a required setting that is missing (start_date when the table has no
\* bookmark; bucket) makes the table sync fail before any I/O. A run that ends
\* with a KeyError has listed nothing, opened nothing and written nothing, and
\* a run without a bucket setting never gets past the listing.
C14_MissingSettingFailsBeforeIO ==
  /\ fault = "KeyError" =>
       (files = <<>> /\ idx = 1 /\ out = <<>> /\ persisted = state_read)
  /\ "bucket" \notin DOMAIN config => pc \in {"idle", "listing", "failed"}

\* ----------------------------------------------------------------- C15
\* The watermark the run must use: the bookmark it was given, else start_date.
ExpectedWatermark ==
  IF has_bookmark(state_read, table_name) THEN Watermark(state_read)
  ELSE strptime_with_tz(config.start_date)

\* C15: the watermark handed to the listing is the table's bookmark when there
\* is one and start_date only when there is none. With a bookmark, a
\* start_date that is later, earlier or absent changes nothing: the run does
\* not fail for the missing setting, and the files listed are the ones newer
\* than the bookmark.
C15_BookmarkBeforeStartDate ==
  /\ pc \in {"listing", "loop", "rows", "done"} =>
       modified_since = ExpectedWatermark
  /\ pc \in {"loop", "rows", "done"} =>
       {files[j] : j \in DOMAIN files}
         = get_input_files_for_table(storage, ExpectedWatermark)
  /\ (has_bookmark(state_read, table_name) /\ "bucket" \in DOMAIN config) =>
       fault # "KeyError"

\* A run with a bookmark and a later start_date listed a file that is newer
\* than the bookmark and not newer than start_date.
C15_Witness ==
  /\ pc = "loop"
  /\ has_bookmark(state_read, table_name)
  /\ "start_date" \in DOMAIN config
  /\ files # <<>>
  /\ Watermark(state_read) < files[1].last_modified
  /\ files[1].last_modified <= strptime_with_tz(config.start_date)

\* ----------------------------------------------------------------- C16
\* The files for which sync_table_file got as far as choosing the decoder.
FilesOpened ==
  FilesCompleted +
    (IF \/ pc = "rows"
        \/ /\ pc = "failed"
           /\ fault \in {"ImportError", "DecodeError", "TransformError"}
     THEN 1 ELSE 0)

\* C16 as stated: the module is resolved exactly once per table sync, whatever
\* the number of files. A run that streamed files with an encoding module
\* configured imported it once.
C16_ResolvedOncePerSync ==
  (pc = "done" /\ "encoding_module" \in DOMAIN config /\ files # <<>>) =>
     imports = 1

\* C16, amended: the module is resolved once per file. Every call of
\* sync_table_file imports the module config names, and logs the warning again
\* when it is not found; without the setting nothing is imported; and every
\* file of a run is read with the same module.
C16_ResolvedOncePerFile ==
  /\ imports = IF "encoding_module" \in DOMAIN config THEN FilesOpened ELSE 0
  /\ warnings = IF /\ SelectionFails
                   /\ config.encoding_module \notin BrokenModules
                THEN FilesOpened ELSE 0
  /\ pc = "rows" =>
       encoding_module =
         IF /\ "encoding_module" \in DOMAIN config
            /\ config.encoding_module \in InstalledModules
         THEN config.encoding_module ELSE DefaultModule

\* A run of two files ended with the installed module imported twice.
C16_Witness ==
  /\ pc = "done"
  /\ Len(files) = 2
  /\ "encoding_module" \in DOMAIN config
  /\ config.encoding_module \in InstalledModules
  /\ imports = 2

\* ----------------------------------------------------------------- C17
\* The rows of files[1..n].
RECURSIVE SumSizes(_)
SumSizes(n) == IF n = 0 THEN 0 ELSE SumSizes(n - 1) + files[n].size

\* C17: sync_table_file returns the number of record messages it wrote for
\* its file, and sync_stream returns the sum over the files it streamed. The
\* count of the file at hand is the number of its records in the output, the
\* running total is the number of rows and of records of the completed files,
\* and the total returned is the number of records written.
C17_CountIsRecordsWritten ==
  /\ pc = "rows" =>
       records_synced = Cardinality(RecordsBefore(s3_file.key, Len(out) + 1))
  /\ records_streamed = SumSizes(FilesCompleted)
  /\ records_streamed =
       Cardinality({i \in RecordPositions :
                      SourceFile(out[i]) \in KeysOf(1, FilesCompleted)})
  /\ pc = "done" =>
       /\ FilesCompleted = Len(files)
       /\ records_streamed = Cardinality(RecordPositions)

\* A run of a file of one row and a file of two rows returned 3.
C17_Witness ==
  /\ pc = "done"
  /\ Len(files) = 2
  /\ files[1].size # files[2].size
  /\ files[1].size > 0
  /\ files[2].size > 0
  /\ records_streamed = 3

\* ----------------------------------------------------------------- C18
\* C18: at every point of a table sync, every listed file whose last_modified
\* is before the persisted watermark has had all its rows written in this run;
\* a listed file not yet fully written is not older than the watermark.
C18_FilesBeforeWatermarkAreWritten ==
  has_bookmark(persisted, table_name) =>
     \A j \in DOMAIN files :
        files[j].last_modified < Watermark(persisted) =>
           /\ j < idx
           /\ Cardinality(RecordsBefore(files[j].key, Len(out) + 1))
                = files[j].size

\* The second file was committed with a later last_modified than the first,
\* which had rows, and the loop has not returned yet.
C18_Witness ==
  /\ pc = "loop"
  /\ idx = 3
  /\ files[1].size > 0
  /\ files[1].last_modified < Watermark(persisted)

\* ----------------------------------------------------------------- C19
\* C19: when the listing returns no file the run writes no record and no
\* state, leaves the state as it was read, a table without a bookmark staying
\* without one, and returns 0.
C19_EmptyListingWritesNothing ==
  (pc = "done" /\ files = <<>>) =>
     /\ out = <<>>
     /\ records_streamed = 0
     /\ state = state_read
     /\ persisted = state_read

\* A run without a bookmark, whose start_date is later than every file of the
\* bucket, ended.
C19_Witness ==
  /\ pc = "done"
  /\ files = <<>>
  /\ storage # {}
  /\ ~has_bookmark(persisted, table_name)
  /\ "start_date" \in DOMAIN config

\* ----------------------------------------------------------------- C20
\* The tables of the state the run was given, the synced one left out.
OtherTables == DOMAIN state_read \ {table_name}

\* A state that has the other tables of the state read, with their bookmarks.
KeepsOtherTables(st) ==
  /\ DOMAIN st \ {table_name} = OtherTables
  /\ \A t \in OtherTables : st[t] = state_read[t]

\* C20: a sync of the table changes that table's bookmark only. In every
\* state written, in the state in memory and in the persisted one, the other
\* tables of the state the run was given are there with their bookmarks.
C20_OtherBookmarksUntouched ==
  /\ \A p \in StatePositions : KeepsOtherTables(out[p].value)
  /\ KeepsOtherTables(state)
  /\ KeepsOtherTables(persisted)

\* Two states were written in a run that was given a bookmark for the table
\* and one for another table, and the table's bookmark has changed.
C20_Witness ==
  /\ Cardinality(StatePositions) = 2
  /\ OtherTables # {}
  /\ has_bookmark(state_read, table_name)
  /\ persisted[table_name] # state_read[table_name]

====
